---- MODULE Spec2Model ----
(***************************************************************************)
(* Model of the selection / execution state machine of the omarchy-cybex   *)
(* TUI installer (src/tui): the option list with per-item state, the modal *)
(* that runs the external install script and streams its output, and the   *)
(* state file that records which options are installed.                    *)
(*                                                                         *)
(* Environment assumptions of the model:                                   *)
(*  - the state file at the start of a session is absent, truncated (not   *)
(*    valid JSON) or an object {"installed": [distinct ids]}: what a       *)
(*    session of the program, or a crash in the middle of one of its       *)
(*    writes, leaves; valid JSON of another shape is covered by ApiSpec,   *)
(*    which calls the functions of utils/state.py directly;                *)
(*  - file-system calls on the state file succeed;                         *)
(*  - StreamReader.readline and RichLog.write do not raise, and the pipe's *)
(*    write end is held by the child process only;                         *)
(*  - the key bindings of MainScreen are inactive while the ModalScreen is *)
(*    on top of it, and a disabled Button emits no Pressed event.          *)
(*                                                                         *)
(* Specifications: Spec (a session), LiveSpec (Spec with a fair worker),   *)
(* CrashSpec (a session that can be killed at any point, a write of the    *)
(* state file included), ApiSpec (the functions called directly).          *)
(***************************************************************************)
EXTENDS Integers, Sequences, FiniteSets, TLC

(* ------------------------------ bounds --------------------------------- *)

\* Lines the external process writes in one run, at most.
MaxLines == 2

\* Runs (modals opened) in one session, at most.
MaxRuns == 2

(* ------------------------------ catalog -------------------------------- *)

\* A sample of data/options.py OPTIONS, in catalog order.
OPTIONS == <<"claude", "fish", "mainline">>

OptionIds == {OPTIONS[i] : i \in 1..Len(OPTIONS)}

\* InstallOption.excluded_from_all of the sampled options.
excluded_from_all(id) == id = "mainline"

\* An id of an option that an older catalog had (not in OPTIONS).
StaleId == "legacy"

script_dir == "/d"

(* --------------------------- sequence helpers -------------------------- *)

Range(s) == {s[i] : i \in 1..Len(s)}

Contains(s, x) == \E i \in 1..Len(s) : s[i] = x

\* list.remove(x): drops the first occurrence of x.
RECURSIVE ListRemove(_, _)
ListRemove(s, x) ==
    IF s = <<>> THEN <<>>
    ELSE IF Head(s) = x THEN Tail(s)
    ELSE <<Head(s)>> \o ListRemove(Tail(s), x)

(* ------------------------------ state.py ------------------------------- *)

\* A value that json.loads returns: its type; for a dict whether it has the
\* key "installed" and the type of that key's value; and that value's
\* elements (the ids of a list, the characters of a string).
Json(type, has, installed_type, elems) ==
    [type |-> type, has_installed |-> has, installed_type |-> installed_type,
     installed |-> elems]

\* A state dict: whether it has the key "installed", and that key's list.
Dict(has, ids) == Json("dict", has, "list", ids)

DefaultState == Dict(TRUE, <<>>)

\* The state file: whether it exists, and its text as a sequence of tokens.
NoFile == [exists |-> FALSE, text |-> <<>>]

\* json.dumps(state, indent=2)
Dumps(state) ==
    IF state.type = "list" THEN <<"[", "]">>
    ELSE IF state.type = "null" THEN <<"null">>
    ELSE IF ~state.has_installed THEN <<"{", "}">>
    ELSE IF state.installed_type = "number"
    THEN <<"{", "installed", "7", "}">>
    ELSE IF state.installed_type = "string"
    THEN <<"{", "installed", "\"xy\"", "}">>
    ELSE <<"{", "installed", "[">> \o state.installed \o <<"]", "}">>

\* White space between two tokens that json.dumps(indent=2) does not put
\* there (a file written by hand, or by another program).
Space == " "

\* json.loads skips the white space between the tokens.
SkipSpace(tokens) ==
    LET NotSpace(t) == t # Space IN SelectSeq(tokens, NotSpace)

\* json.loads(text): ok is FALSE where json.loads raises JSONDecodeError.
Loads(tokens) ==
    LET text == SkipSpace(tokens)
        n == Len(text) IN
    IF text = <<"{", "}">>
    THEN [ok |-> TRUE, value |-> Dict(FALSE, <<>>)]
    ELSE IF text = <<"[", "]">>
    THEN [ok |-> TRUE, value |-> Json("list", FALSE, "list", <<>>)]
    ELSE IF text = <<"null">>
    THEN [ok |-> TRUE, value |-> Json("null", FALSE, "list", <<>>)]
    ELSE IF text = <<"{", "installed", "7", "}">>
    THEN [ok |-> TRUE, value |-> Json("dict", TRUE, "number", <<>>)]
    ELSE IF text = <<"{", "installed", "\"xy\"", "}">>
    THEN [ok |-> TRUE, value |-> Json("dict", TRUE, "string", <<"x", "y">>)]
    ELSE IF /\ n >= 5
            /\ SubSeq(text, 1, 3) = <<"{", "installed", "[">>
            /\ SubSeq(text, n - 1, n) = <<"]", "}">>
            /\ \A i \in 4..(n - 2) : text[i] \notin {"{", "}", "[", "]", "installed"}
    THEN [ok |-> TRUE, value |-> Dict(TRUE, SubSeq(text, 4, n - 2))]
    ELSE [ok |-> FALSE, value |-> DefaultState]

load_state(f) ==
    IF f.exists
    THEN IF Loads(f.text).ok THEN Loads(f.text).value ELSE DefaultState
    ELSE DefaultState

\* A save_state that writes the default state, whatever it is given.
save_state_default(state) == [exists |-> TRUE, text |-> Dumps(DefaultState)]

save_state(state) == [exists |-> TRUE, text |-> Dumps(state)]

\* state.get("installed", [])
GetInstalledList(state) == IF state.has_installed THEN state.installed ELSE <<>>

\* state.get raises AttributeError: the loaded value is no dict.
GetRaises(state) == state.type # "dict"

\* Iterating over, or testing membership in, state.get("installed", [])
\* raises TypeError: the value is a number.
IterRaises(state) == state.has_installed /\ state.installed_type = "number"

\* The value of state.get("installed", []) is a str (no append, no remove).
IsStr(state) == state.has_installed /\ state.installed_type = "string"

\* The characters of a string, put together.
RECURSIVE Concat(_)
Concat(chars) == IF chars = <<>> THEN "" ELSE Head(chars) \o Concat(Tail(chars))

\* option_id in state.get("installed", []): membership in a list, substring
\* of a str (exact for ids at least as long as the str).
InInstalled(state, option_id) ==
    IF IsStr(state)
    THEN Len(option_id) <= Len(state.installed)
         /\ Concat(state.installed) = option_id
    ELSE Contains(GetInstalledList(state), option_id)

\* Whether mark_installed(option_id) on file f raises.
mark_installed_raises(f, option_id) ==
    LET state == load_state(f) IN
    \/ GetRaises(state)
    \/ IterRaises(state)
    \/ IsStr(state) /\ ~InInstalled(state, option_id)

\* Whether mark_uninstalled(option_id) on file f raises.
mark_uninstalled_raises(f, option_id) ==
    LET state == load_state(f) IN
    \/ GetRaises(state)
    \/ IterRaises(state)
    \/ IsStr(state) /\ InInstalled(state, option_id)

\* Whether get_installed() on file f raises.
get_installed_raises(f) ==
    GetRaises(load_state(f)) \/ IterRaises(load_state(f))

\* mark_installed without the call of save_state.
mark_installed_no_save(f, option_id) == f

\* mark_installed without the test for the id being in the list.
mark_installed_always_appends(f, option_id) ==
    LET state == load_state(f) IN
    IF mark_installed_raises(f, option_id) THEN f
    ELSE save_state(Dict(TRUE, Append(GetInstalledList(state), option_id)))

\* The file after mark_installed(option_id) on file f (as it was, if the
\* call raises).
mark_installed(f, option_id) ==
    LET state == load_state(f) IN
    IF mark_installed_raises(f, option_id) THEN f
    ELSE IF ~InInstalled(state, option_id)
    THEN save_state(Dict(TRUE, Append(GetInstalledList(state), option_id)))
    ELSE f

\* The file after mark_uninstalled(option_id) on file f (as it was, if the
\* call raises).
mark_uninstalled(f, option_id) ==
    LET state == load_state(f) IN
    IF mark_uninstalled_raises(f, option_id) THEN f
    ELSE IF InInstalled(state, option_id)
    THEN save_state(Dict(TRUE, ListRemove(state.installed, option_id)))
    ELSE f

\* Whether mark_installed / mark_uninstalled on file f calls save_state.
mark_installed_saves(f, option_id) ==
    /\ ~mark_installed_raises(f, option_id)
    /\ ~InInstalled(load_state(f), option_id)

mark_uninstalled_saves(f, option_id) ==
    /\ ~mark_uninstalled_raises(f, option_id)
    /\ InInstalled(load_state(f), option_id)

\* The set that get_installed() returns on file f (empty, if it raises).
get_installed(f) ==
    IF get_installed_raises(f) THEN {}
    ELSE Range(GetInstalledList(load_state(f)))

(* ----------------------------- installer.py ---------------------------- *)

build_command(dir, options, uninstall) ==
    <<dir \o "/install">> \o (IF uninstall THEN <<"uninstall">> ELSE <<>>) \o options

\* A run_installation that leaves the mode out of the argv.
run_installation_cmd_no_mode(dir, options, uninstall) ==
    <<dir \o "/install">> \o options

\* The argv run_installation passes to create_subprocess_exec.
run_installation_cmd(dir, options, uninstall) ==
    <<dir \o "/install">> \o (IF uninstall THEN <<"uninstall">> ELSE <<>>) \o options

\* ' '.join(cmd)
RECURSIVE Join(_)
Join(cmd) ==
    IF cmd = <<>> THEN ""
    ELSE IF Len(cmd) = 1 THEN cmd[1]
    ELSE cmd[1] \o " " \o Join(Tail(cmd))

\* Lines the process can write: a text line, and one that is not valid UTF-8.
RawLines == {"out", "xFF"}

\* line.decode("utf-8", errors="replace")
decode(line) == IF line = "xFF" THEN "uFFFD" ELSE line

\* returncode: None until the process has been waited for.
None == <<>>

\* The exit codes of the model: success, and one of the non-zero codes.
ExitCodes == {0, 1}

NoProcess ==
    [state |-> "none", argv |-> <<>>, pipe |-> <<>>, written |-> <<>>,
     returncode |-> None]

Alive(p) == p.state \in {"running", "closed"}

(* ---------------------------- option_list.py --------------------------- *)

\* OptionItem.__init__: the reactive fields start at their class defaults.
OptionItem(installed) ==
    [selected |-> FALSE, status |-> "pending", is_installed |-> installed]

\* OptionList.__init__: _options_map = {}, no item yet.
NoOptions == [id \in {} |-> OptionItem(FALSE)]

\* A compose that makes an item for every installed id as well.
compose_options_with_stale(installed) ==
    [id \in OptionIds \cup installed |-> OptionItem(id \in installed)]

\* A compose that does not pass is_installed to the items.
compose_options_not_installed(installed) ==
    [id \in OptionIds |-> OptionItem(FALSE)]

\* OptionList.compose: one item per catalog option.
compose_options(installed) ==
    [id \in OptionIds |-> OptionItem(id \in installed)]

\* OptionItem.toggle_selection
toggle_selection(item) == [item EXCEPT !.selected = ~item.selected]

\* A set_installed that leaves the installed flag as it is.
set_installed_status_only(item, installed) ==
    [item EXCEPT !.status = IF installed THEN "installed" ELSE "pending"]

\* OptionItem.set_installed
set_installed(item, installed) ==
    [item EXCEPT !.is_installed = installed,
                 !.status = IF installed THEN "installed" ELSE "pending"]

\* OptionItem._status_text: the indicator shown in the item's row.
status_text(item) ==
    IF item.status = "installed" \/ item.is_installed THEN "OK"
    ELSE IF item.status = "installing" THEN "..."
    ELSE IF item.status = "failed" THEN "FAIL"
    ELSE ""

\* OptionList.get_selected_options: the selected ids, in catalog order.
get_selected_options(m) ==
    LET IsSelected(id) == id \in DOMAIN m /\ m[id].selected
    IN SelectSeq(OPTIONS, IsSelected)

\* A select_all that toggles every item it does not skip.
select_all_toggles_all(m, exclude_special) ==
    [id \in DOMAIN m |->
        IF exclude_special /\ excluded_from_all(id) THEN m[id]
        ELSE toggle_selection(m[id])]

\* OptionList.select_all
select_all(m, exclude_special) ==
    [id \in DOMAIN m |->
        IF exclude_special /\ excluded_from_all(id) THEN m[id]
        ELSE IF ~m[id].selected THEN toggle_selection(m[id])
        ELSE m[id]]

\* The items whose toggle_selection select_all calls: each of them posts one
\* OptionItem.Selected message.
select_all_posted(m, exclude_special) ==
    {id \in DOMAIN m :
        /\ ~(exclude_special /\ excluded_from_all(id))
        /\ ~m[id].selected}

\* OptionList.deselect_all
deselect_all(m) ==
    [id \in DOMAIN m |->
        IF m[id].selected THEN toggle_selection(m[id]) ELSE m[id]]

\* OptionList.set_option_status (no caller in the program)
set_option_status(m, option_id, status) ==
    IF option_id \in DOMAIN m
    THEN [m EXCEPT ![option_id].status = status]
    ELSE m

\* mark_option_installed without the reset of the selected flag.
mark_option_installed_keeps_selection(m, option_id) ==
    IF option_id \in DOMAIN m
    THEN [m EXCEPT ![option_id] = set_installed(m[option_id], TRUE)]
    ELSE m

\* OptionList.mark_option_installed
mark_option_installed(m, option_id) ==
    IF option_id \in DOMAIN m
    THEN [m EXCEPT ![option_id] =
             [set_installed(m[option_id], TRUE) EXCEPT !.selected = FALSE]]
    ELSE m

\* A mark_option_uninstalled that resets the selected flag as well.
mark_option_uninstalled_deselects(m, option_id) ==
    IF option_id \in DOMAIN m
    THEN [m EXCEPT ![option_id] =
             [set_installed(m[option_id], FALSE) EXCEPT !.selected = FALSE]]
    ELSE m

\* OptionList.mark_option_uninstalled
mark_option_uninstalled(m, option_id) ==
    IF option_id \in DOMAIN m
    THEN [m EXCEPT ![option_id] = set_installed(m[option_id], FALSE)]
    ELSE m

(* ---------------------------- main_screen.py --------------------------- *)

StatusText(kind, n) == [kind |-> kind, n |-> n]

\* MainScreen._update_status: the text it sets for the selection of m.
update_status(m) ==
    IF get_selected_options(m) # <<>>
    THEN StatusText("selected", Len(get_selected_options(m)))
    ELSE StatusText("ready", 0)

\* A call made by a completion callback, as recorded in the variable calls.
Call(op, id) == [op |-> op, id |-> id]

\* The loop of action_install's on_complete over the ids not yet handled:
\* st is the state file, the option list and the calls made so far.
RECURSIVE install_loop(_, _)
install_loop(ids, st) ==
    IF ids = <<>> THEN st
    ELSE LET opt_id == Head(ids) IN
         install_loop(Tail(ids),
            [file |-> mark_installed(st.file, opt_id),
             map |-> mark_option_installed(st.map, opt_id),
             calls |-> st.calls
                 \o <<Call("mark_installed", opt_id)>>
                 \o (IF mark_installed_saves(st.file, opt_id)
                     THEN <<Call("save_state", opt_id)>> ELSE <<>>)
                 \o <<Call("mark_option_installed", opt_id)>>])

\* An uninstall loop that handles the first id of the request only.
uninstall_loop_first_only(ids, st) ==
    IF ids = <<>> THEN st
    ELSE LET opt_id == Head(ids) IN
            [file |-> mark_uninstalled(st.file, opt_id),
             map |-> mark_option_uninstalled(st.map, opt_id),
             calls |-> st.calls
                 \o <<Call("mark_uninstalled", opt_id)>>
                 \o (IF mark_uninstalled_saves(st.file, opt_id)
                     THEN <<Call("save_state", opt_id)>> ELSE <<>>)
                 \o <<Call("mark_option_uninstalled", opt_id)>>]

\* The loop of action_uninstall's on_complete.
RECURSIVE uninstall_loop(_, _)
uninstall_loop(ids, st) ==
    IF ids = <<>> THEN st
    ELSE LET opt_id == Head(ids) IN
         uninstall_loop(Tail(ids),
            [file |-> mark_uninstalled(st.file, opt_id),
             map |-> mark_option_uninstalled(st.map, opt_id),
             calls |-> st.calls
                 \o <<Call("mark_uninstalled", opt_id)>>
                 \o (IF mark_uninstalled_saves(st.file, opt_id)
                     THEN <<Call("save_state", opt_id)>> ELSE <<>>)
                 \o <<Call("mark_option_uninstalled", opt_id)>>])

\* An on_complete without the test of success.
on_complete_ignores_success(uninstall, selected, success, f, m) ==
    LET st0 == [file |-> f, map |-> m, calls |-> <<>>]
        st  == IF uninstall THEN uninstall_loop(selected, st0)
               ELSE install_loop(selected, st0)
    IN [file |-> st.file, map |-> st.map, calls |-> st.calls,
        status_bar |->
            StatusText(IF uninstall THEN "uninstalled" ELSE "installed",
                       Len(selected))]

\* on_complete(success) of action_install / action_uninstall for the request
\* `selected`: the state file, the option list, the status bar and the calls
\* it makes, from state file f and option list m.
on_complete(uninstall, selected, success, f, m) ==
    LET st0 == [file |-> f, map |-> m, calls |-> <<>>]
        st  == IF ~success THEN st0
               ELSE IF uninstall THEN uninstall_loop(selected, st0)
               ELSE install_loop(selected, st0)
    IN [file |-> st.file, map |-> st.map, calls |-> st.calls,
        status_bar |->
            IF success
            THEN StatusText(IF uninstall THEN "uninstalled" ELSE "installed",
                            Len(selected))
            ELSE StatusText(IF uninstall THEN "uninstall_failed"
                            ELSE "install_failed", 0)]

(* ---------------------------- install_modal.py ------------------------- *)

\* No InstallModal on the screen stack.
NoModal ==
    [open |-> FALSE, options |-> <<>>, uninstall |-> FALSE, success |-> FALSE,
     completed |-> FALSE, close_disabled |-> TRUE, log |-> <<>>]

\* InstallModal.__init__ and compose: the pushed modal.
InstallModal(options, uninstall) ==
    [open |-> TRUE, options |-> options, uninstall |-> uninstall,
     success |-> FALSE, completed |-> FALSE, close_disabled |-> TRUE,
     log |-> <<>>]

\* An entry of the RichLog: its kind and its text.
LogEntry(kind, text) == [kind |-> kind, text |-> text]

\* InstallModal._convert_ansi_to_rich: returns its argument.
convert_ansi_to_rich(text) == text

\* The states of the run that the modal shows.
ModalState(md) ==
    IF ~md.completed THEN "Running"
    ELSE IF md.success THEN "Succeeded" ELSE "Failed"

(* -------------------------------- state -------------------------------- *)

VARIABLES
    file,         \* the state file (STATE_FILE)
    options_map,  \* OptionList._options_map: id -> item state
    status_bar,   \* the text of #status-bar
    modal,        \* the InstallModal on top of MainScreen, or NoModal
    worker,       \* where run_installation_task stands
    process,      \* the subprocess of the latest run
    orphans,      \* processes of earlier runs that are still alive
    runs,         \* modals pushed so far
    delivered,    \* the argument of the latest on_complete call, <<>> if none
    calls,        \* the calls made by the latest on_complete
    app_running,  \* FALSE once action_quit has run
    probe         \* the latest direct call of a function, and what it gave

vars == <<file, options_map, status_bar, modal, worker, process, orphans,
          runs, delivered, calls, app_running, probe>>

\* The state files a session can start from.
InitFiles ==
    {NoFile,
     [exists |-> TRUE, text |-> <<>>],
     [exists |-> TRUE, text |-> <<"{", "installed", "[", "fish">>],
     save_state(Dict(TRUE, <<>>)),
     save_state(Dict(TRUE, <<"fish">>)),
     save_state(Dict(TRUE, <<StaleId, "claude">>))}

\* No function has been called directly.
NoProbe ==
    [op |-> "none", id |-> "", flag |-> FALSE, again |-> FALSE,
     raised |-> FALSE, result |-> {}, posted |-> {}, saved |-> <<>>]

\* The state after MainScreen.__init__ and OptionList.__init__.
Init ==
    /\ file \in InitFiles
    /\ options_map = NoOptions
    /\ status_bar = StatusText("ready", 0)
    /\ modal = NoModal
    /\ worker = "none"
    /\ process = NoProcess
    /\ orphans = 0
    /\ runs = 0
    /\ delivered = <<>>
    /\ calls = <<>>
    /\ app_running = TRUE
    /\ probe = NoProbe

(* ------------------------- MainScreen bindings ------------------------- *)

\* The option list has been composed.
Composed == DOMAIN options_map # {}

\* MainScreen.compose: the option list is built from get_installed().
compose ==
    /\ app_running /\ ~Composed
    /\ options_map' = compose_options(get_installed(file))
    /\ status_bar' = StatusText("ready", 0)
    /\ UNCHANGED <<file, modal, worker, process, orphans, runs, delivered,
                   calls, app_running, probe>>

\* The bindings of MainScreen act once it is composed and while no
\* ModalScreen is on top of it.
MainScreenActive == app_running /\ Composed /\ ~modal.open

\* action_toggle on the highlighted item, then on_option_item_selected.
action_toggle ==
    /\ MainScreenActive
    /\ \E id \in DOMAIN options_map :
          options_map' = [options_map EXCEPT ![id] = toggle_selection(@)]
    /\ status_bar' = update_status(options_map')
    /\ UNCHANGED <<file, modal, worker, process, orphans, runs, delivered,
                   calls, app_running, probe>>

action_select_all ==
    /\ MainScreenActive
    /\ options_map' = select_all(options_map, TRUE)
    /\ status_bar' = update_status(options_map')
    /\ UNCHANGED <<file, modal, worker, process, orphans, runs, delivered,
                   calls, app_running, probe>>

action_deselect_all ==
    /\ MainScreenActive
    /\ options_map' = deselect_all(options_map)
    /\ status_bar' = update_status(options_map')
    /\ UNCHANGED <<file, modal, worker, process, orphans, runs, delivered,
                   calls, app_running, probe>>

\* app.push_screen(InstallModal(...), on_complete): the modal is mounted and
\* on_mount starts the worker run_installation_task.
push_screen(selected, uninstall) ==
    /\ runs < MaxRuns
    /\ runs' = runs + 1
    /\ modal' = InstallModal(selected, uninstall)
    /\ worker' = "start"
    /\ orphans' = orphans + (IF Alive(process) THEN 1 ELSE 0)
    /\ process' = NoProcess
    /\ delivered' = <<>>
    /\ calls' = <<>>

\* action_install / action_uninstall with nothing selected.
no_options_selected ==
    /\ status_bar' = StatusText("warning", 0)
    /\ UNCHANGED <<file, options_map, modal, worker, process, orphans, runs,
                   delivered, calls, app_running, probe>>

\* An action_install without the test for an empty selection.
action_install_unchecked ==
    /\ MainScreenActive
    /\ LET selected == get_selected_options(options_map) IN
            /\ status_bar' = StatusText("installing", Len(selected))
            /\ push_screen(selected, FALSE)
            /\ UNCHANGED <<file, options_map, app_running, probe>>

action_install ==
    /\ MainScreenActive
    /\ LET selected == get_selected_options(options_map) IN
       IF selected = <<>>
       THEN no_options_selected
       ELSE /\ status_bar' = StatusText("installing", Len(selected))
            /\ push_screen(selected, FALSE)
            /\ UNCHANGED <<file, options_map, app_running, probe>>

action_uninstall ==
    /\ MainScreenActive
    /\ LET selected == get_selected_options(options_map) IN
       IF selected = <<>>
       THEN no_options_selected
       ELSE /\ status_bar' = StatusText("uninstalling", Len(selected))
            /\ push_screen(selected, TRUE)
            /\ UNCHANGED <<file, options_map, app_running, probe>>

action_quit ==
    /\ MainScreenActive
    /\ app_running' = FALSE
    /\ UNCHANGED <<file, options_map, status_bar, modal, worker, process,
                   orphans, runs, delivered, calls, probe>>

(* ----------------------- run_installation_task ------------------------- *)

\* The worker writes the command preview and calls run_installation, which
\* awaits create_subprocess_exec.
worker_start ==
    /\ modal.open /\ worker = "start"
    /\ modal' = [modal EXCEPT !.log = Append(@,
          LogEntry("cmd", <<"$ " \o Join(build_command(script_dir, modal.options,
                                                      modal.uninstall))>>))]
    /\ worker' = "spawning"
    /\ UNCHANGED <<file, options_map, status_bar, process, orphans, runs,
                   delivered, calls, app_running, probe>>

\* create_subprocess_exec returns the process.
spawn_ok ==
    /\ modal.open /\ worker = "spawning"
    /\ process' = [state |-> "running",
                   argv |-> run_installation_cmd(script_dir, modal.options,
                                                 modal.uninstall),
                   pipe |-> <<>>, written |-> <<>>, returncode |-> None]
    /\ worker' = "reading"
    /\ UNCHANGED <<file, options_map, status_bar, modal, orphans, runs,
                   delivered, calls, app_running, probe>>

\* A worker that leaves the close button disabled.
finish_leaves_button(md, success, summary) ==
    [md EXCEPT !.success = success, !.completed = TRUE,
               !.log = Append(md.log, LogEntry("summary", <<summary>>))]

\* What the worker does once the run is over (or has raised): the fields, the
\* summary line and the close button.
finish(md, success, summary) ==
    [md EXCEPT !.success = success, !.completed = TRUE,
               !.log = Append(md.log, LogEntry("summary", <<summary>>)),
               !.close_disabled = FALSE]

\* A worker without the except branch: the exception ends it.
spawn_fails_unhandled ==
    /\ modal.open /\ worker = "spawning"
    /\ worker' = "finished"
    /\ UNCHANGED <<file, options_map, status_bar, modal, process, orphans,
                   runs, delivered, calls, app_running, probe>>

\* create_subprocess_exec raises: the except branch.
spawn_fails ==
    /\ modal.open /\ worker = "spawning"
    /\ modal' = finish(modal, FALSE, "error")
    /\ worker' = "finished"
    /\ UNCHANGED <<file, options_map, status_bar, process, orphans, runs,
                   delivered, calls, app_running, probe>>

\* readline returns a line: it is decoded and handed to output_handler.
read_line ==
    /\ modal.open /\ worker = "reading"
    /\ process.pipe # <<>>
    /\ process' = [process EXCEPT !.pipe = Tail(@)]
    /\ modal' = [modal EXCEPT !.log = Append(@,
          LogEntry("line", <<convert_ansi_to_rich(decode(Head(process.pipe)))>>))]
    /\ UNCHANGED <<file, options_map, status_bar, worker, orphans, runs,
                   delivered, calls, app_running, probe>>

\* A loop that ends as soon as the process has exited, whatever is still to
\* be read.
read_eof_on_exit ==
    /\ modal.open /\ worker = "reading"
    /\ process.state = "exited"
    /\ worker' = "waiting"
    /\ UNCHANGED <<file, options_map, status_bar, modal, process, orphans,
                   runs, delivered, calls, app_running, probe>>

\* readline returns b"": the loop ends and the worker awaits process.wait().
read_eof ==
    /\ modal.open /\ worker = "reading"
    /\ process.pipe = <<>>
    /\ process.state \in {"closed", "exited"}
    /\ worker' = "waiting"
    /\ UNCHANGED <<file, options_map, status_bar, modal, process, orphans,
                   runs, delivered, calls, app_running, probe>>

\* A worker that does not await process.wait().
wait_returns_at_once(p) == TRUE

\* Whether process.wait() returns for process p.
wait_returns(p) == p.state = "exited"

\* A success test that takes every exit for a success.
exit_success_any(exit_code) == exit_code # None

\* self.success = exit_code == 0
exit_success(exit_code) == exit_code = <<0>>

\* process.wait() has returned: run_installation returns the exit code.
run_returns ==
    /\ modal.open /\ worker = "waiting"
    /\ wait_returns(process)
    /\ LET exit_code == process.returncode
           success == exit_success(exit_code)
       IN modal' = finish(modal, success, IF success THEN "ok" ELSE "failed")
    /\ worker' = "finished"
    /\ UNCHANGED <<file, options_map, status_bar, process, orphans, runs,
                   delivered, calls, app_running, probe>>

(* ------------------------- the external process ------------------------ *)

process_writes ==
    /\ process.state = "running"
    /\ Len(process.written) < MaxLines
    /\ \E line \in RawLines :
          process' = [process EXCEPT !.pipe = Append(@, line),
                                     !.written = Append(@, line)]
    /\ UNCHANGED <<file, options_map, status_bar, modal, worker, orphans,
                   runs, delivered, calls, app_running, probe>>

\* The process closes its output and keeps running.
process_closes_output ==
    /\ process.state = "running"
    /\ process' = [process EXCEPT !.state = "closed"]
    /\ UNCHANGED <<file, options_map, status_bar, modal, worker, orphans,
                   runs, delivered, calls, app_running, probe>>

process_exits ==
    /\ Alive(process)
    /\ \E code \in ExitCodes :
          process' = [process EXCEPT !.state = "exited", !.returncode = <<code>>]
    /\ UNCHANGED <<file, options_map, status_bar, modal, worker, orphans,
                   runs, delivered, calls, app_running, probe>>

(* -------------------------- InstallModal input ------------------------- *)

\* self.dismiss(result): the modal is popped and on_complete(result) runs.
dismiss(result) ==
    LET r == on_complete(modal.uninstall, modal.options, result, file, options_map)
    IN /\ file' = r.file
       /\ options_map' = r.map
       /\ status_bar' = r.status_bar
       /\ calls' = r.calls
       /\ delivered' = <<result>>
       /\ modal' = NoModal
       /\ worker' = "none"
       /\ UNCHANGED <<process, orphans, runs, app_running, probe>>

\* An escape binding without the completed test.
cancel_always(md) == TRUE

\* Whether the escape key dismisses modal md.
cancel_allowed(md) == md.completed

\* action_cancel (escape)
action_cancel ==
    /\ app_running /\ modal.open
    /\ IF cancel_allowed(modal) THEN dismiss(modal.success) ELSE UNCHANGED vars

\* Whether the close button of modal md can be pressed.
close_enabled(md) == ~md.close_disabled

\* on_button_pressed for close-btn
on_button_pressed ==
    /\ app_running /\ modal.open
    /\ close_enabled(modal)
    /\ dismiss(modal.success)

(* ----------------------------- specification --------------------------- *)

UserStep ==
    \/ compose
    \/ action_toggle
    \/ action_select_all
    \/ action_deselect_all
    \/ action_install
    \/ action_uninstall
    \/ action_quit
    \/ action_cancel
    \/ on_button_pressed

WorkerStep ==
    \/ worker_start
    \/ spawn_ok
    \/ spawn_fails
    \/ read_line
    \/ read_eof
    \/ run_returns

ProcessStep ==
    \/ process_writes
    \/ process_closes_output
    \/ process_exits

Next == UserStep \/ WorkerStep \/ ProcessStep

Spec == Init /\ [][Next]_vars

\* The event loop resumes the worker whenever what it awaits is ready.
LiveSpec == Init /\ [][Next]_vars /\ WF_vars(WorkerStep)

(* --------------------------- the session killed ------------------------ *)

\* The state file after on_complete(True) has handled the first k ids of the
\* request.
FileAfter(k) ==
    LET st0 == [file |-> file, map |-> options_map, calls |-> <<>>]
        ids == SubSeq(modal.options, 1, k)
    IN IF modal.uninstall THEN uninstall_loop(ids, st0).file
       ELSE install_loop(ids, st0).file

\* The state file at the points between the calls of on_complete's loop.
SavePoints == {FileAfter(k) : k \in 0..Len(modal.options)}

\* Path.write_text(text) cut short: the file has been opened for writing,
\* which empties it, and holds the part of the text written so far.
WriteCutShort(f) ==
    {[exists |-> TRUE, text |-> SubSeq(f.text, 1, j)] : j \in 0..(Len(f.text) - 1)}

\* The state file at the points inside the save_state calls of on_complete's
\* loop.
MidSavePoints ==
    UNION {IF FileAfter(k) # FileAfter(k - 1)
           THEN WriteCutShort(FileAfter(k)) ELSE {} :
           k \in 1..Len(modal.options)}

\* The process of the session is killed (or the machine loses power): at any
\* point outside on_complete, or inside the on_complete of a successful run,
\* between two calls of its loop or inside a save_state.
crash ==
    /\ app_running
    /\ app_running' = FALSE
    /\ \/ UNCHANGED file
       \/ /\ modal.open /\ cancel_allowed(modal) /\ modal.success
          /\ file' \in (SavePoints \cup MidSavePoints) \ {file}
    /\ UNCHANGED <<options_map, status_bar, modal, worker, process, orphans,
                   runs, delivered, calls, probe>>

CrashNext == Next \/ crash

CrashSpec == Init /\ [][CrashNext]_vars

(* ---------------------- the functions, called directly ------------------ *)

\* The functions of utils/state.py and of OptionList, called one after the
\* other on every state file content and every selection, outside a session.

\* The state file contents the functions are called on: the files of a
\* session, and valid JSON of another shape.
ApiFiles ==
    InitFiles \cup
    {[exists |-> TRUE, text |-> <<"{", "}">>],
     [exists |-> TRUE, text |-> <<"[", "]">>],
     [exists |-> TRUE, text |-> <<"null">>],
     [exists |-> TRUE, text |-> <<"{", "installed", "7", "}">>],
     [exists |-> TRUE, text |-> <<"{", "installed", "\"xy\"", "}">>],
     save_state(Dict(TRUE, <<"fish", "fish">>)),
     [exists |-> TRUE,
      text |-> <<"{", "installed", "[", "fish", "]", "}", Space>>]}

\* The ids the functions are called with.
ApiIds == {"claude", "fish", StaleId}

\* The sets of ids that are saved, as lists: every set of up to two ids, in
\* every order.
SaveLists ==
    {<<>>} \cup {<<a>> : a \in ApiIds}
           \cup {p \in ApiIds \X ApiIds : p[1] # p[2]}

\* What a direct call leaves alone.
session == <<status_bar, modal, worker, process, orphans, runs, delivered,
             calls, app_running>>

ApiInit ==
    /\ file \in ApiFiles
    /\ options_map = compose_options(get_installed(file))
    /\ status_bar = StatusText("ready", 0)
    /\ modal = NoModal
    /\ worker = "none"
    /\ process = NoProcess
    /\ orphans = 0
    /\ runs = 0
    /\ delivered = <<>>
    /\ calls = <<>>
    /\ app_running = TRUE
    /\ probe = NoProbe

\* The same function was called with the same id just before.
Again(op, id) == probe.op = op /\ probe.id = id

api_get_installed ==
    /\ probe' = [NoProbe EXCEPT !.op = "get_installed",
                                !.raised = get_installed_raises(file),
                                !.result = get_installed(file)]
    /\ UNCHANGED <<file, options_map>>
    /\ UNCHANGED session

api_mark_installed ==
    \E id \in ApiIds :
        /\ file' = mark_installed(file, id)
        /\ probe' = [NoProbe EXCEPT
                        !.op = "mark_installed", !.id = id,
                        !.again = Again("mark_installed", id),
                        !.raised = mark_installed_raises(file, id)]
        /\ UNCHANGED options_map
        /\ UNCHANGED session

api_mark_uninstalled ==
    \E id \in ApiIds :
        /\ file' = mark_uninstalled(file, id)
        /\ probe' = [NoProbe EXCEPT
                        !.op = "mark_uninstalled", !.id = id,
                        !.again = Again("mark_uninstalled", id),
                        !.raised = mark_uninstalled_raises(file, id)]
        /\ UNCHANGED options_map
        /\ UNCHANGED session

\* save_state({"installed": ids})
api_save_state ==
    \E ids \in SaveLists :
        /\ file' = save_state(Dict(TRUE, ids))
        /\ probe' = [NoProbe EXCEPT !.op = "save_state", !.saved = ids]
        /\ UNCHANGED options_map
        /\ UNCHANGED session

\* save_state(load_state())
api_save_loaded ==
    /\ file' = save_state(load_state(file))
    /\ probe' = [NoProbe EXCEPT !.op = "save_loaded"]
    /\ UNCHANGED options_map
    /\ UNCHANGED session

api_toggle_selection ==
    \E id \in DOMAIN options_map :
        /\ options_map' =
               [options_map EXCEPT ![id] = toggle_selection(options_map[id])]
        /\ probe' = [NoProbe EXCEPT !.op = "toggle_selection", !.id = id,
                                    !.posted = {id}]
        /\ UNCHANGED file
        /\ UNCHANGED session

api_select_all ==
    \E exclude_special \in BOOLEAN :
        /\ options_map' = select_all(options_map, exclude_special)
        /\ probe' = [NoProbe EXCEPT
                        !.op = "select_all", !.flag = exclude_special,
                        !.posted = select_all_posted(options_map,
                                                     exclude_special)]
        /\ UNCHANGED file
        /\ UNCHANGED session

api_deselect_all ==
    /\ options_map' = deselect_all(options_map)
    /\ probe' = [NoProbe EXCEPT
                    !.op = "deselect_all",
                    !.posted = Range(get_selected_options(options_map))]
    /\ UNCHANGED file
    /\ UNCHANGED session

ApiNext ==
    \/ api_get_installed
    \/ api_mark_installed
    \/ api_mark_uninstalled
    \/ api_save_state
    \/ api_save_loaded
    \/ api_toggle_selection
    \/ api_select_all
    \/ api_deselect_all

ApiSpec == ApiInit /\ [][ApiNext]_vars

(* ------------------------------- claims -------------------------------- *)

\* A step that pops the modal: dismiss was called.
Dismissed == modal.open /\ ~modal'.open

\* The ids of the calls of operation op in the latest on_complete.
CalledWith(op) == {calls[i].id : i \in {j \in 1..Len(calls) : calls[j].op = op}}

C2_StoreChangesOnlyOnSuccess ==
    [][get_installed(file') # get_installed(file)
       => /\ Dismissed
          /\ modal.success
          /\ delivered' = <<TRUE>>
          /\ \E i \in 1..Len(calls') :
                calls'[i].op \in {"mark_installed", "mark_uninstalled"}]_vars

\* A successful run has been dismissed and its callback saved the state.
C2_Witness ==
    /\ ~modal.open /\ delivered = <<TRUE>>
    /\ "fish" \in CalledWith("save_state")
    /\ "fish" \in get_installed(file)

\* C3: when a run whose process exited with a non-zero code is dismissed, the
\* modal is in state Failed with the failure summary as its last line, the
\* callback gets FALSE, and the state file is not written: it keeps its
\* content and no mark_ or save_state call is made.
C3_NonZeroExitLeavesStore ==
    [][(/\ Dismissed
        /\ process.state = "exited" /\ process.returncode # <<0>>)
       => /\ ModalState(modal) = "Failed"
          /\ modal.log[Len(modal.log)] = LogEntry("summary", <<"failed">>)
          /\ delivered' = <<FALSE>>
          /\ file' = file
          /\ calls' = <<>>
          /\ status_bar'.kind \in {"install_failed", "uninstall_failed"}]_vars

\* A run of two options that exited 1 has been dismissed.
C3_Witness ==
    /\ ~modal.open /\ delivered = <<FALSE>>
    /\ process.state = "exited" /\ process.returncode = <<1>>
    /\ Len(process.argv) = 3
    /\ status_bar.kind = "install_failed"

\* C4: while the run is Running the close button is disabled, and no step
\* pops the modal or hands a result to on_complete: the modal is dismissed
\* only in state Succeeded or Failed.
C4_DismissOnlyWhenTerminal ==
    [][(modal.open /\ ModalState(modal) = "Running")
       => /\ modal.close_disabled
          /\ ~close_enabled(modal)
          /\ modal'.open
          /\ delivered' = <<>>
          /\ calls' = <<>>]_vars

\* The modal is open and Running while the worker reads the process's output.
C4_Witness ==
    /\ modal.open /\ ModalState(modal) = "Running"
    /\ worker = "reading" /\ process.state = "running"
    /\ Len(modal.log) = 2
    /\ delivered = <<>>

\* The child processes that are alive: those of earlier runs and the latest.
AliveProcesses == orphans + (IF Alive(process) THEN 1 ELSE 0)

StoreCallOf(op) ==
    IF op = "mark_option_installed" THEN "mark_installed" ELSE "mark_uninstalled"

\* In the call sequence cs, every call on the option list comes after the
\* store update for the same id.
StoreUpdateFirst(cs) ==
    \A i \in 1..Len(cs) :
        cs[i].op \in {"mark_option_installed", "mark_option_uninstalled"}
        => \E j \in 1..(i - 1) : cs[j] = Call(StoreCallOf(cs[i].op), cs[i].id)

\* C7: in every state an item with status installed has its id in the
\* persisted installed set; and a step that changes an item's status or its
\* installed flag is a completion callback in which the option-list call for
\* that item comes after the store update (mark_installed, mark_uninstalled)
\* for the same id.
C7_InstalledStatusBackedByStore ==
    /\ [](\A id \in DOMAIN options_map :
            options_map[id].status = "installed" => id \in get_installed(file))
    /\ [][\A id \in DOMAIN options_map :
            (\/ options_map'[id].status # options_map[id].status
             \/ options_map'[id].is_installed # options_map[id].is_installed)
            => /\ Dismissed
               /\ StoreUpdateFirst(calls')
               /\ id \in CalledWith("mark_option_installed")'
                     \cup CalledWith("mark_option_uninstalled")'
               /\ options_map'[id].status = "installed"
                     <=> id \in CalledWith("mark_option_installed")']_vars

\* An item went to installed in a callback that had to write the store.
C7_Witness ==
    /\ Composed
    /\ options_map["claude"].status = "installed"
    /\ "claude" \in get_installed(file)
    /\ calls = <<Call("mark_installed", "claude"), Call("save_state", "claude"),
                 Call("mark_option_installed", "claude")>>

\* C8: action_install / action_uninstall with an empty selection only set the
\* status bar to the warning: no modal is pushed, no process is spawned, and
\* the option list and the state file stay as they are. No modal is ever
\* open, and no process ever started, for an empty list of ids.
C8_EmptySelectionIsNoOp ==
    /\ [](modal.open => modal.options # <<>>)
    /\ [](process.state # "none"
             => \E i \in 1..Len(process.argv) : process.argv[i] \in OptionIds)
    /\ [][((action_install \/ action_uninstall)
            /\ get_selected_options(options_map) = <<>>)
          => /\ status_bar' = StatusText("warning", 0)
             /\ ~modal'.open
             /\ UNCHANGED <<file, options_map, modal, worker, process, orphans,
                            runs>>]_vars

\* Install or uninstall was invoked with nothing selected.
C8_Witness ==
    /\ status_bar = StatusText("warning", 0)
    /\ get_selected_options(options_map) = <<>>
    /\ ~modal.open /\ process.state = "none" /\ runs = 0

\* The worker's step in which create_subprocess_exec raised.
SpawnRaised == worker = "spawning" /\ worker' = "finished"

\* C9: when create_subprocess_exec raises, the worker's step leaves the modal
\* Failed with an error line as last line of the log and the close button
\* enabled, and does not touch the state file; dismissing that modal hands
\* FALSE to on_complete and leaves the state file as it is.
C9_SpawnErrorIsFailedRun ==
    [][/\ SpawnRaised
          => /\ modal'.open
             /\ ModalState(modal') = "Failed"
             /\ modal'.log = Append(modal.log, LogEntry("summary", <<"error">>))
             /\ close_enabled(modal')
             /\ file' = file
       /\ (Dismissed /\ worker = "finished" /\ process.state = "none")
          => /\ delivered' = <<FALSE>>
             /\ calls' = <<>>
             /\ file' = file]_vars

\* A run whose process could not be started has been dismissed.
C9_Witness ==
    /\ ~modal.open /\ runs >= 1
    /\ process.state = "none"
    /\ delivered = <<FALSE>>

\* The run is over for the worker: its process has exited, or could not be
\* started.
RunOver ==
    /\ modal.open
    /\ \/ process.state = "exited"
       \/ worker = "finished" /\ process.state = "none"

\* The modal is in a terminal state with the close button enabled.
Dismissable == modal.open /\ modal.completed /\ close_enabled(modal)

C11_UninstallSuccessUnmarksRequest ==
    [][(Dismissed /\ modal.uninstall /\ modal.success)
       => /\ delivered' = <<TRUE>>
          /\ CalledWith("mark_uninstalled")' = Range(modal.options)
          /\ CalledWith("mark_option_uninstalled")' = Range(modal.options)
          /\ \A id \in Range(modal.options) :
                /\ id \notin get_installed(file')
                /\ options_map'[id].status # "installed"
                /\ ~options_map'[id].is_installed]_vars

\* An uninstall of claude (not installed) and fish (installed) has been
\* dismissed with success.
C11_Witness ==
    /\ ~modal.open /\ delivered = <<TRUE>>
    /\ status_bar = StatusText("uninstalled", 2)
    /\ CalledWith("mark_uninstalled") = {"claude", "fish"}
    /\ CalledWith("save_state") = {"fish"}
    /\ get_installed(file) \cap {"claude", "fish"} = {}

\* C12 (as claimed): when a run whose process exited with a non-zero code is
\* dismissed, every requested item has status failed.
C12_FailedRunMarksItemsFailed ==
    [][(/\ Dismissed
        /\ process.state = "exited" /\ process.returncode # <<0>>)
       => \A id \in Range(modal.options) :
             options_map'[id].status = "failed"]_vars

\* A step that composes the option list.
Composes == ~Composed /\ Composed'

\* C13 (as amended): composition makes one item per catalog option, with the
\* installed flag set exactly for the ids in the persisted installed set at
\* that moment (so that the indicator shows OK for them), status pending for
\* every item, and selected FALSE.
C13_ComposeSetsInstalledFlag ==
    [][Composes
       => /\ DOMAIN options_map' = OptionIds
          /\ \A id \in OptionIds :
                /\ options_map'[id].is_installed <=> id \in get_installed(file)
                /\ status_text(options_map'[id]) = "OK"
                      <=> id \in get_installed(file)
                /\ options_map'[id].status = "pending"
                /\ ~options_map'[id].selected]_vars

\* C13 (as claimed): composition sets status to installed for the ids in the
\* persisted installed set and to pending for the others, selected FALSE.
C13_ComposeSetsStatus ==
    [][Composes
       => \A id \in OptionIds :
             /\ options_map'[id].status =
                   (IF id \in get_installed(file) THEN "installed" ELSE "pending")
             /\ ~options_map'[id].selected]_vars

\* The list has just been composed from a state file that holds fish.
C13_Witness ==
    /\ Composed /\ runs = 0
    /\ get_installed(file) = {"fish"}
    /\ options_map["fish"] = OptionItem(TRUE)
    /\ options_map["claude"] = OptionItem(FALSE)
    /\ status_text(options_map["fish"]) = "OK"

\* The file holds a well-formed state object: a dict whose key "installed"
\* is a list.
WellFormed(f) ==
    /\ f.exists
    /\ Loads(f.text).ok
    /\ Loads(f.text).value.type = "dict"
    /\ Loads(f.text).value.has_installed
    /\ Loads(f.text).value.installed_type = "list"

\* C14 (as claimed): on every state file content, get_installed,
\* mark_installed and mark_uninstalled raise no error, and get_installed
\* returns the empty set unless the file holds a well-formed state object.
C14_MalformedFileReadsAsEmpty ==
    /\ probe.op \in {"get_installed", "mark_installed", "mark_uninstalled"}
          => ~probe.raised
    /\ (probe.op = "get_installed" /\ ~WellFormed(file))
          => probe.result = {}

\* The session ends in this step.
SessionEnds == app_running /\ ~app_running'

\* C15 (as claimed): whenever the session ends, a crash in the middle of a
\* save or of the completion loop included, the state file holds the content
\* before or after a save of the loop, and get_installed still returns every
\* id that was persisted before and that the run was not removing.
C15_CrashLeavesSavedContent ==
    [][SessionEnds
       => /\ file' \in SavePoints
          /\ (get_installed(file)
                 \ (IF modal.uninstall THEN Range(modal.options) ELSE {}))
                \subseteq get_installed(file')]_vars

\* C16: every id that a step of the session adds to the persisted installed
\* set is a catalog id (so an id that is not in the catalog is never added,
\* or added again); the ids of the file that are not in the catalog get no
\* item in the composed list.
C16_SessionAddsCatalogIdsOnly ==
    /\ [][(get_installed(file') \ get_installed(file)) \subseteq OptionIds]_vars
    /\ [](Composed => DOMAIN options_map = OptionIds)

\* A session that started with a stale id in the file has added fish to it.
C16_Witness ==
    /\ Composed
    /\ StaleId \in get_installed(file)
    /\ StaleId \notin DOMAIN options_map
    /\ Call("save_state", "fish") \in Range(calls)
    /\ "fish" \in get_installed(file)

\* The list that the state dict of file f holds under "installed".
ListOf(f) == GetInstalledList(load_state(f))

\* The file is read as a state dict whose "installed", if there, is a list.
HoldsList(f) ==
    /\ ~GetRaises(load_state(f))
    /\ ~IterRaises(load_state(f))
    /\ ~IsStr(load_state(f))

\* How often x occurs in seq.
Count(seq, x) == Cardinality({i \in DOMAIN seq : seq[i] = x})

\* C17: on every file that holds a list, mark_installed(id) raises no error,
\* leaves the installed set with id added and id in the list once if it was
\* not there (as often as before if it was), and a second call with the same
\* id leaves the file as the first call left it; mark_uninstalled(id) with id
\* not in the list raises no error and leaves the file as it was.
C17_MarkInstalledIdempotent ==
    [][/\ (probe'.op = "mark_installed" /\ HoldsList(file))
          => /\ ~probe'.raised
             /\ get_installed(file') = get_installed(file) \cup {probe'.id}
             /\ Count(ListOf(file'), probe'.id) =
                   (IF Count(ListOf(file), probe'.id) = 0 THEN 1
                    ELSE Count(ListOf(file), probe'.id))
             /\ mark_installed(file', probe'.id) = file'
             /\ probe'.again => file' = file
       /\ (/\ probe'.op = "mark_uninstalled" /\ HoldsList(file)
           /\ probe'.id \notin get_installed(file))
          => /\ ~probe'.raised
             /\ file' = file]_vars

\* mark_installed("claude") has been called twice in a row on a file that
\* held fish.
C17_Witness ==
    /\ probe.op = "mark_installed" /\ probe.id = "claude" /\ probe.again
    /\ ~probe.raised
    /\ ListOf(file) = <<"fish", "claude">>

\* The selected ids of option list m.
Selected(m) == {id \in DOMAIN m : m[id].selected}

\* The catalog options that are not excluded from "select all".
NotExcluded == {id \in OptionIds : ~excluded_from_all(id)}

\* C18 (as amended): select_all(exclude_special = True) selects every item
\* that is not excluded from "select all" and leaves the excluded items as
\* they are, so the selection is NotExcluded together with the excluded
\* items selected before; select_all(False) selects the full catalog; only
\* the items that were not selected are toggled and post a message.
C18_SelectAllKeepsExcludedItems ==
    [][probe'.op = "select_all"
       => /\ Selected(options_map') =
                (IF probe'.flag
                 THEN NotExcluded \cup (Selected(options_map) \ NotExcluded)
                 ELSE OptionIds)
          /\ probe'.posted = Selected(options_map') \ Selected(options_map)
          /\ \A id \in Selected(options_map) :
                options_map'[id] = options_map[id]]_vars

\* C18 (as claimed): from any selection, select_all(exclude_special = True)
\* leaves exactly the items not excluded from "select all" selected, and
\* select_all(False) the full catalog.
C18_SelectAllSelectsExactlyS ==
    [][probe'.op = "select_all"
       => Selected(options_map') =
             (IF probe'.flag THEN NotExcluded ELSE OptionIds)]_vars

\* select_all(True) has been called with mainline and claude selected: fish
\* was toggled, mainline is still selected.
C18_Witness ==
    /\ probe.op = "select_all" /\ probe.flag
    /\ probe.posted = {"fish"}
    /\ Selected(options_map) = OptionIds
    /\ excluded_from_all("mainline")

\* Script directories and option lists a command is built for: the lists of
\* up to two catalog ids, in every order.
ScriptDirs == {script_dir, "/opt/omarchy-cybex"}

Requests ==
    {<<>>} \cup {<<a>> : a \in OptionIds}
           \cup {<<a, b>> : a \in OptionIds, b \in OptionIds}

\* C19: for every script directory, option list and mode, the command of
\* build_command is the install script of the directory, then "uninstall" in
\* uninstall mode only, then the option ids in the order given; and the argv
\* of the process of a run is the command of build_command whose joined text
\* is the preview line at the head of the log.
C19_ArgvIsPreviewedCommand ==
    /\ \A dir \in ScriptDirs, uninstall \in BOOLEAN, options \in Requests :
          LET cmd == build_command(dir, options, uninstall)
              off == IF uninstall THEN 2 ELSE 1
          IN /\ Len(cmd) = off + Len(options)
             /\ cmd[1] = dir \o "/install"
             /\ uninstall => cmd[2] = "uninstall"
             /\ \A i \in 1..Len(options) : cmd[off + i] = options[i]
    /\ (modal.open /\ process.state # "none")
          => /\ process.argv =
                   build_command(script_dir, modal.options, modal.uninstall)
             /\ Head(modal.log) =
                   LogEntry("cmd", <<"$ " \o Join(process.argv)>>)

\* The process of an uninstall run of claude and fish has been spawned.
C19_Witness ==
    /\ modal.open /\ modal.uninstall
    /\ process.state = "running"
    /\ process.argv = <<"/d/install", "uninstall", "claude", "fish">>
    /\ Head(modal.log) =
          LogEntry("cmd", <<"$ /d/install uninstall claude fish">>)

\* The lines of the process that the worker has read so far, as written to
\* the log.
LinesRead ==
    LET n == Len(process.written) - Len(process.pipe)
    IN [i \in 1..n |->
           LogEntry("line", <<convert_ansi_to_rich(decode(process.written[i]))>>)]

\* The entries of the log between the preview line and the summary line.
OutputEntries ==
    LET log == modal.log
        last == IF log[Len(log)].kind = "summary" THEN Len(log) - 1
                ELSE Len(log)
    IN SubSeq(log, 2, last)

DumpsFormat(f) ==
    /\ f.exists
    /\ Loads(f.text).ok
    /\ Space \notin Range(f.text)

C22_InstalledFlagMatchesStore ==
    Composed
       => \A id \in OptionIds :
             /\ options_map[id].is_installed <=> id \in get_installed(file)
             /\ status_text(options_map[id]) = "OK"
                   <=> id \in get_installed(file)

\* After an install run and an uninstall run: fish has been unmarked, claude
\* is the only id in the file, and the flags say so.
C22_Witness ==
    /\ Composed /\ ~modal.open /\ runs = 2
    /\ delivered = <<TRUE>>
    /\ Call("mark_option_uninstalled", "fish") \in Range(calls)
    /\ Call("save_state", "fish") \in Range(calls)
    /\ get_installed(file) = {"claude"}
    /\ options_map["claude"].is_installed
    /\ ~options_map["fish"].is_installed

\* C23: while the modal is open the option list does not change and its
\* selection is the request of the run; a dismissal with success FALSE
\* leaves the option list as it is, every selected flag and status included,
\* so that the selection still is the request; a dismissal of an uninstall
\* run with success TRUE leaves every requested item selected.
C23_FailedRunKeepsSelection ==
    /\ [](modal.open => get_selected_options(options_map) = modal.options)
    /\ [][modal.open => 
            /\ modal'.open => options_map' = options_map
            /\ (Dismissed /\ delivered' = <<FALSE>>)
                  => /\ options_map' = options_map
                     /\ get_selected_options(options_map') = modal.options
            /\ (Dismissed /\ delivered' = <<TRUE>> /\ modal.uninstall)
                  => \A id \in Range(modal.options) :
                        options_map'[id].selected]_vars

\* An install run of claude and fish has failed and has been dismissed: both
\* are still selected, with status pending.
C23_Witness ==
    /\ Composed /\ ~modal.open
    /\ delivered = <<FALSE>>
    /\ status_bar = StatusText("install_failed", 0)
    /\ get_selected_options(options_map) = <<"claude", "fish">>
    /\ options_map["claude"].status = "pending"
    /\ options_map["fish"].status = "pending"

====
